---- MODULE Spec2Model ----
(***************************************************************************)
(* Model of src/tasks.py: the work-item loop process_emails and the reply  *)
(* renderer construct_email_reply.                                         *)
(*                                                                         *)
(* A Python str is modelled as the sequence of its parts: the literal      *)
(* pieces of a template and the values interpolated between them.  The     *)
(* empty str is the empty sequence, "a" + "b" is \o.                       *)
(* A parsed JSON value is a record [t, s, f, a]: its type, its text when   *)
(* it is a scalar, its key->value mapping when it is an object (a function *)
(* whose DOMAIN is the set of keys present), its elements when an array.   *)
(***************************************************************************)
EXTENDS Integers, Sequences, FiniteSets, TLC

VARIABLES items, i, pc, email, inReplyTo, references, response, reply,
          message, outbox, calls

vars == <<items, i, pc, email, inReplyTo, references, response, reply,
          message, outbox, calls>>

(* ------------------------------ bounds ------------------------------- *)
MaxItems == 2
MaxInvoices == 2
MaxAbsent == 1
MaxRefs == 2

(* --------------------------- JSON values ----------------------------- *)
EmptyDict == [k \in {} |-> 0]

JStr(x) == [t |-> "string", s |-> x, f |-> EmptyDict, a |-> <<>>]
JNum(x) == [t |-> "number", s |-> x, f |-> EmptyDict, a |-> <<>>]
JNull == [t |-> "null", s |-> "None", f |-> EmptyDict, a |-> <<>>]
JObj(d) == [t |-> "object", s |-> "", f |-> d, a |-> <<>>]
JArr(l) == [t |-> "array", s |-> "", f |-> EmptyDict, a |-> l]

\* str(value), as an f-string field formats it
Format(v) ==
  CASE v.t \in {"string", "number", "null"} -> v.s
    [] v.t = "object" -> "{...}"
    [] v.t = "array" -> "[...]"

\* value.get(key, default): AttributeError unless value is a dict
HasGet(v) == v.t = "object"

Get(v, key, default) ==
  IF key \in DOMAIN v.f THEN Format(v.f[key]) ELSE default

\* iter(value): TypeError for a number and for null; a str yields its
\* characters (themselves str), a dict its keys (str)
Iterable(v) == v.t \in {"array", "string", "object"}

DictKeys(d) ==
  [n \in 1..Cardinality(DOMAIN d) |-> JStr("key")]

Elements(v) ==
  CASE v.t = "array" -> v.a
    [] v.t = "string" -> IF v.s = "" THEN <<>> ELSE <<JStr(v.s)>>
    [] v.t = "object" -> DictKeys(v.f)
    [] OTHER -> <<>>

(* ------------------------- construct_email_reply --------------------- *)
CSS == "<!DOCTYPE html><html><head><style>...</style></head>"

get_css_template == CSS

NO_SUMMARY_RETURNED == "No summary was returned"
NO_REPLY_RETURNED == "No suggested reply was returned"
NO_ID == "NO ID"
NO_VALUE == "NO VALUE"
NO_CURRENCY == ""
NO_STATUS == "NO STATUS"
NO_PROMISED_DATE == "NO PROMISED DATE"
NO_SUMMARY == "NO SUMMARY"

\* lines 103-125: the document up to and including <tbody>
ReplyHead(json_data) ==
  << get_css_template,
     "<body><h2>SUMMARY</h2>",
     Get(json_data, "summary", NO_SUMMARY_RETURNED),
     "<h2>SUGGESTED REPLY</h2>",
     Get(json_data, "suggested_reply", NO_REPLY_RETURNED),
     "<h2>INVOICES</h2><table>",
     "<thead>", "<tr>", "<th>Invoice ID</th>...<th>Action</th>", "</tr>", "</thead>",
     "<tbody>" >>

\* mutant: the status is looked up with the empty str as its default
ReplyRow_statusDefaultEmpty(invoice) ==
  << "<tr>",
     "<td>", Get(invoice, "invoice_id", NO_ID),
     "</td><td>", Get(invoice, "total_value", NO_VALUE), " ",
                  Get(invoice, "currency", NO_CURRENCY),
     "</td><td>", Get(invoice, "status", ""),
     "</td><td>", Get(invoice, "promised_payment_date", NO_PROMISED_DATE),
     "</td><td>", Get(invoice, "summary", NO_SUMMARY),
     "</td><td><a href=...>Update AR</a></td>",
     "</tr>" >>

\* lines 127-136: one table row
ReplyRow(invoice) ==
  << "<tr>",
     "<td>", Get(invoice, "invoice_id", NO_ID),
     "</td><td>", Get(invoice, "total_value", NO_VALUE), " ",
                  Get(invoice, "currency", NO_CURRENCY),
     "</td><td>", Get(invoice, "status", NO_STATUS),
     "</td><td>", Get(invoice, "promised_payment_date", NO_PROMISED_DATE),
     "</td><td>", Get(invoice, "summary", NO_SUMMARY),
     "</td><td><a href=...>Update AR</a></td>",
     "</tr>" >>

\* line 138
ReplyTail == <<"</tbody></table><br /><p>Bot Generated Reply Ends Here</p>">>

\* how a call ends: with a value, or with an exception
Returned(v) == [raised |-> FALSE, value |-> v]
Raised == [raised |-> TRUE, value |-> <<>>]

\* mutant: a row is left out when an earlier invoice has the same invoice_id
RECURSIVE RowsOnce(_, _)
RowsOnce(elems, seen) ==
  IF elems = <<>> THEN Returned(<<>>)
  ELSE IF ~HasGet(Head(elems)) THEN Raised
  ELSE LET id == Get(Head(elems), "invoice_id", "")
           rest == RowsOnce(Tail(elems), seen \cup {id})
       IN IF rest.raised THEN Raised
          ELSE IF id \in seen THEN rest
          ELSE Returned(<< "<tr>", "<td>", id,
                           "</td><td>", Get(Head(elems), "total_value", NO_VALUE), " ",
                                        Get(Head(elems), "currency", NO_CURRENCY),
                           "</td><td>", Get(Head(elems), "status", NO_STATUS),
                           "</td><td>", Get(Head(elems), "promised_payment_date",
                                            NO_PROMISED_DATE),
                           "</td><td>", Get(Head(elems), "summary", NO_SUMMARY),
                           "</td><td><a href=...>Update AR</a></td>",
                           "</tr>" >> \o rest.value)

ReplyRows_deduplicated(elems) == RowsOnce(elems, {})

\* line 126-136: the for loop over the invoices, in list order; invoice.get
\* raises on the first element that is not a dict
RECURSIVE ReplyRows(_)
ReplyRows(elems) ==
  IF elems = <<>> THEN Returned(<<>>)
  ELSE IF ~HasGet(Head(elems)) THEN Raised
  ELSE LET rest == ReplyRows(Tail(elems))
       IN IF rest.raised THEN Raised
          ELSE Returned(ReplyRow(Head(elems)) \o rest.value)

\* line 95: response["choices"][0]["message"]["content"], then json.loads
HasContent(resp) == Len(resp.choices) > 0

ContentOf(resp) == resp.choices[1].message.content

JsonLoads(content) ==
  IF content.json THEN Returned(content.v) ELSE Raised

\* mutant: the JSONDecodeError is not caught
construct_email_reply_propagates(resp) ==
  IF ~HasContent(resp) THEN Returned(<<>>)
  ELSE LET parsed == JsonLoads(ContentOf(resp))
       IN IF parsed.raised THEN Raised
          ELSE LET json_data == parsed.value
               IN IF ~HasGet(json_data) THEN Raised
                  ELSE LET invoices ==
                             IF "invoices" \in DOMAIN json_data.f
                             THEN json_data.f["invoices"] ELSE JArr(<<>>)
                       IN IF ~Iterable(invoices) THEN Raised
                          ELSE LET rows == ReplyRows(Elements(invoices))
                               IN IF rows.raised THEN Raised
                                  ELSE Returned(ReplyHead(json_data) \o rows.value
                                                \o ReplyTail)

\* lines 92-140
construct_email_reply(resp) ==
  IF ~HasContent(resp) THEN Returned(<<>>)                \* except Exception
  ELSE LET parsed == JsonLoads(ContentOf(resp))
       IN IF parsed.raised THEN Returned(<<>>)            \* JSONDecodeError
          ELSE LET json_data == parsed.value
               IN IF ~HasGet(json_data) THEN Raised       \* line 107
                  ELSE LET invoices ==
                             IF "invoices" \in DOMAIN json_data.f
                             THEN json_data.f["invoices"] ELSE JArr(<<>>)
                       IN IF ~Iterable(invoices) THEN Raised   \* line 126
                          ELSE LET rows == ReplyRows(Elements(invoices))
                               IN IF rows.raised THEN Raised
                                  ELSE Returned(ReplyHead(json_data) \o rows.value
                                                \o ReplyTail)

(* ----------------------- inputs of the renderer ---------------------- *)
InvoiceKeys ==
  {"invoice_id", "total_value", "currency", "status", "promised_payment_date",
   "summary"}

FieldValues ==
  [key \in InvoiceKeys |->
     CASE key = "invoice_id" -> {JStr("INV-1"), JStr("INV-2")}
       [] key = "total_value" -> {JNum("100")}
       [] key = "currency" -> {JStr("USD")}
       [] key = "status" -> {JStr("paid")}
       [] key = "promised_payment_date" -> {JStr("2023-09-01")}
       [] key = "summary" -> {JStr("paid already")}]

\* every dict over exactly the keys S, each key with one of its values
RECURSIVE DictsOver(_, _)
DictsOver(S, vals) ==
  IF S = {} THEN {EmptyDict}
  ELSE LET k == CHOOSE x \in S : TRUE
       IN {(k :> v) @@ d : v \in vals[k], d \in DictsOver(S \ {k}, vals)}

\* every dict that lacks at most maxAbsent of the keys
Dicts(keys, vals, maxAbsent) ==
  UNION {DictsOver(S, vals) :
         S \in {T \in SUBSET keys : Cardinality(keys \ T) <= maxAbsent}}

InvoiceObjects == {JObj(d) : d \in Dicts(InvoiceKeys, FieldValues, MaxAbsent)}

InvoiceEntries == InvoiceObjects \cup {JStr("INV-1")}

\* the value of the "invoices" key: a list of entries, or not a list at all
InvoicesKinds == {"array", "number", "null"}

InvoicesValue(kind, l) ==
  CASE kind = "array" -> JArr(l)
    [] kind = "number" -> JNum("0")
    [] kind = "null" -> JNull

\* the keys of the response that the renderer reads
TopKeys == {"summary", "suggested_reply", "invoices"}

\* a JSON object holding the keys `present` and the account_id, which the
\* renderer never reads
TopObject(present, invoices) ==
  JObj([key \in present \cup {"account_id"} |->
          CASE key = "summary" -> JStr("ok")
            [] key = "account_id" -> JStr("A1")
            [] key = "suggested_reply" -> JStr("Thanks!")
            [] key = "invoices" -> invoices])

\* JSON documents that are not an object
JsonOthers == {JArr(<<>>), JStr("ok"), JNum("1"), JNull}

Json(v) == [json |-> TRUE, v |-> v]
NotJson == [json |-> FALSE, v |-> JNull]

\* the ChatCompletion response, lines 229-241
Response(content) ==
  [usage |-> "usage", choices |-> <<[message |-> [content |-> content]]>>]

NoChoices == [usage |-> "usage", choices |-> <<>>]

(* ------------------------- work items -------------------------------- *)
\* item.email(): an Email with text, subject and from_.address, or an exception
Email(text, subject, address) ==
  [ok |-> TRUE, text |-> <<text>>, subject |-> subject, address |-> <<address>>]

NoEmail == [ok |-> FALSE, text |-> <<>>, subject |-> <<>>, address |-> <<>>]

MessageId(n) == <<"<m" \o ToString(n) \o "@x>">>

\* the References of a mail that answers the n-th message of a thread
Thread(n) == [k \in 1..n |-> MessageId(k)]

\* item.payload["email"]: a dict with the keys present
Payload(inReplyTo_, references_) ==
  ("inReplyTo" :> inReplyTo_) @@ ("references" :> references_)

Without(d, key) == [k \in DOMAIN d \ {key} |-> d[k]]

ItemFirst ==
  [email |-> Email("body 1", <<"Invoices Q1">>, "alice@x"),
   payload |-> Payload(MessageId(1), Thread(1))]

ItemThread ==
  [email |-> Email("body 2", <<"Re: ", "Invoices Q2">>, "bob@y"),
   payload |-> Payload(MessageId(MaxRefs), Thread(MaxRefs))]

ItemNew ==
  [email |-> Email("body 3", <<"Hello">>, "carol@z"),
   payload |-> Payload(<<>>, Thread(0))]

ItemNoEmail == [email |-> NoEmail, payload |-> ItemFirst.payload]

ItemNoInReplyTo ==
  [email |-> ItemThread.email, payload |-> Without(ItemThread.payload, "inReplyTo")]

ItemNoReferences ==
  [email |-> ItemNew.email, payload |-> Without(ItemFirst.payload, "references")]

WorkItems ==
  {ItemFirst, ItemThread, ItemNew, ItemNoEmail, ItemNoInReplyTo, ItemNoReferences}

\* what the chat-completion API answers in a run
GoodInvoice ==
  JObj([key \in InvoiceKeys |-> CHOOSE v \in FieldValues[key] : TRUE])

RunResponses ==
  { Response(NotJson),
    Response(Json(TopObject(TopKeys, JArr(<<GoodInvoice>>)))),
    Response(Json(TopObject({"summary"}, JNull))),
    Response(Json(TopObject(TopKeys, JArr(<<JStr("INV-1")>>)))),
    Response(Json(JArr(<<>>))) }

\* what sg.send returns, assigned to `response` at line 262
Accepted == [usage |-> "202 Accepted", choices |-> <<>>]

(* --------------------------- process_emails -------------------------- *)
FROM_EMAIL == <<"bot@example.com">>

\* " ".join(list)
RECURSIVE Join(_, _)
Join(sep, list) ==
  IF list = <<>> THEN <<>>
  ELSE IF Len(list) = 1 THEN list[1]
  ELSE list[1] \o sep \o Join(sep, Tail(list))

Header(name, value) == [name |-> name, value |-> value]

NoMessage ==
  [from_email |-> <<>>, to_emails |-> <<>>, subject |-> <<>>, html_content |-> <<>>,
   header |-> <<>>]

\* lines 247-258
Mail(from_email, email_, inReplyTo_, references_, reply_) ==
  [from_email |-> from_email,
   to_emails |-> email_.address,
   subject |-> <<"Re: ">> \o email_.subject,
   html_content |-> reply_,
   header |-> <<Header("in_reply_to", inReplyTo_), Header("References", references_)>>]

Call(op, ok) == [op |-> op, item |-> i, ok |-> ok]

\* the state on entry: the queue is given, the locals are not yet bound (they
\* hold values that nothing reads before the first assignment)
Init ==
  /\ items \in UNION {[1..n -> WorkItems] : n \in 0..MaxItems}
  /\ i = 0
  /\ pc = "start"
  /\ email = NoEmail /\ inReplyTo = <<>> /\ references = <<>>
  /\ response = Accepted
  /\ reply = <<>>
  /\ message = NoMessage
  /\ outbox = <<>> /\ calls = <<>>

\* lines 211-212
InitializeReturns ==
  /\ pc = "start"
  /\ pc' = "loop"
  /\ calls' = Append(calls, Call("initialize", TRUE))
  /\ UNCHANGED <<items, i, email, inReplyTo, references, response, reply, message, outbox>>

\* vault.get_secret or a missing key raises: nothing catches it
InitializeRaises ==
  /\ pc = "start"
  /\ pc' = "raised"
  /\ calls' = Append(calls, Call("initialize", FALSE))
  /\ UNCHANGED <<items, i, email, inReplyTo, references, response, reply, message, outbox>>

\* line 217: the next item of workitems.inputs
NextItem ==
  /\ pc = "loop"
  /\ i < Len(items)
  /\ i' = i + 1
  /\ pc' = "extract"
  /\ UNCHANGED <<items, email, inReplyTo, references, response, reply, message, outbox,
                 calls>>

\* line 217: the iterator is exhausted, the function returns
LoopEnd ==
  /\ pc = "loop"
  /\ i = Len(items)
  /\ pc' = "returned"
  /\ UNCHANGED <<items, i, email, inReplyTo, references, response, reply, message,
                 outbox, calls>>

Extractable(item) ==
  /\ item.email.ok
  /\ "inReplyTo" \in DOMAIN item.payload
  /\ "references" \in DOMAIN item.payload

\* mutant: the threading metadata is read for the first item only
ExtractReturns_keepsThread ==
  /\ pc = "extract"
  /\ Extractable(items[i])
  /\ email' = items[i].email
  /\ inReplyTo' = IF i = 1 THEN items[i].payload["inReplyTo"] ELSE inReplyTo
  /\ references' = IF i = 1 THEN Join(<<" ">>, items[i].payload["references"])
                    ELSE references
  /\ calls' = Append(calls, Call("extract", TRUE))
  /\ pc' = "create"
  /\ UNCHANGED <<items, i, response, reply, message, outbox>>

\* lines 219-222
ExtractReturns ==
  /\ pc = "extract"
  /\ Extractable(items[i])
  /\ email' = items[i].email
  /\ inReplyTo' = items[i].payload["inReplyTo"]
  /\ references' = Join(<<" ">>, items[i].payload["references"])
  /\ calls' = Append(calls, Call("extract", TRUE))
  /\ pc' = "create"
  /\ UNCHANGED <<items, i, response, reply, message, outbox>>

\* mutant: continue instead of break
ExtractBreaks_continues ==
  /\ pc = "extract"
  /\ ~Extractable(items[i])
  /\ calls' = Append(calls, Call("extract", FALSE))
  /\ pc' = "loop"
  /\ UNCHANGED <<items, i, email, inReplyTo, references, response, reply, message,
                 outbox>>

\* lines 219-225: the assignments made before the exception stay, then break
ExtractBreaks ==
  /\ pc = "extract"
  /\ ~Extractable(items[i])
  /\ email' = IF items[i].email.ok THEN items[i].email ELSE email
  /\ inReplyTo' = IF items[i].email.ok /\ "inReplyTo" \in DOMAIN items[i].payload
                   THEN items[i].payload["inReplyTo"] ELSE inReplyTo
  /\ calls' = Append(calls, Call("extract", FALSE))
  /\ pc' = "returned"
  /\ UNCHANGED <<items, i, references, response, reply, message, outbox>>

\* lines 227-236: openai.ChatCompletion.create returns
CreateReturns ==
  /\ pc = "create"
  /\ \E r \in RunResponses : response' = r
  /\ calls' = Append(calls, Call("create", TRUE))
  /\ pc' = "reply"
  /\ UNCHANGED <<items, i, email, inReplyTo, references, reply, message, outbox>>

\* mutant: the exception of the completion call is caught and the loop goes on
CreateRaises_swallowed ==
  /\ pc = "create"
  /\ calls' = Append(calls, Call("create", FALSE))
  /\ pc' = "loop"
  /\ UNCHANGED <<items, i, email, inReplyTo, references, response, reply, message,
                 outbox>>

\* lines 229-236: the call raises; no try encloses it
CreateRaises ==
  /\ pc = "create"
  /\ calls' = Append(calls, Call("create", FALSE))
  /\ pc' = "raised"
  /\ UNCHANGED <<items, i, email, inReplyTo, references, response, reply, message,
                 outbox>>

\* mutant: the loop goes on to the next item without sending the message
ReplyBuilt_skipsSend ==
  /\ pc = "reply"
  /\ HasContent(response)
  /\ ~construct_email_reply(response).raised
  /\ reply' = construct_email_reply(response).value
  /\ message' = [from_email |-> FROM_EMAIL, to_emails |-> email.address,
                  subject |-> <<"Re: ">> \o email.subject, html_content |-> reply',
                  header |-> <<[name |-> "in_reply_to", value |-> inReplyTo],
                               [name |-> "References", value |-> references]>>]
  /\ calls' = Append(calls, Call("construct", TRUE))
  /\ pc' = "loop"
  /\ UNCHANGED <<items, i, email, inReplyTo, references, response, outbox>>

\* lines 239-258: debug output, construct_email_reply, Mail and its headers
ReplyBuilt ==
  /\ pc = "reply"
  /\ HasContent(response)
  /\ ~construct_email_reply(response).raised
  /\ reply' = construct_email_reply(response).value
  /\ message' = Mail(FROM_EMAIL, email, inReplyTo, references, reply')
  /\ calls' = Append(calls, Call("construct", TRUE))
  /\ pc' = "send"
  /\ UNCHANGED <<items, i, email, inReplyTo, references, response, outbox>>

\* lines 239-246: an exception of the debug output or of construct_email_reply
\* leaves process_emails
ReplyRaises ==
  /\ pc = "reply"
  /\ (~HasContent(response)) \/ construct_email_reply(response).raised
  /\ calls' = Append(calls, Call("construct", FALSE))
  /\ pc' = "raised"
  /\ UNCHANGED <<items, i, email, inReplyTo, references, response, reply, message,
                 outbox>>

Sent(ok) == [item |-> i, message |-> message, ok |-> ok]

\* line 262: sg.send returns
SendReturns ==
  /\ pc = "send"
  /\ outbox' = Append(outbox, Sent(TRUE))
  /\ response' = Accepted
  /\ calls' = Append(calls, Call("send", TRUE))
  /\ pc' = "loop"
  /\ UNCHANGED <<items, i, email, inReplyTo, references, reply, message>>

\* mutant: the exception of sg.send is not caught
SendRaises_propagates ==
  /\ pc = "send"
  /\ outbox' = Append(outbox, Sent(FALSE))
  /\ calls' = Append(calls, Call("send", FALSE))
  /\ pc' = "raised"
  /\ UNCHANGED <<items, i, email, inReplyTo, references, response, reply, message>>

\* lines 261-264: sg.send raises, the handler prints the trace
SendRaises ==
  /\ pc = "send"
  /\ outbox' = Append(outbox, Sent(FALSE))
  /\ calls' = Append(calls, Call("send", FALSE))
  /\ pc' = "loop"
  /\ UNCHANGED <<items, i, email, inReplyTo, references, response, reply, message>>

Next ==
  \/ InitializeReturns \/ InitializeRaises
  \/ NextItem \/ LoopEnd
  \/ ExtractReturns \/ ExtractBreaks
  \/ CreateReturns \/ CreateRaises
  \/ ReplyBuilt \/ ReplyRaises
  \/ SendReturns \/ SendRaises

Spec == Init /\ [][Next]_vars

(* ------------------- reading the history of a run -------------------- *)
Did(op, k, ok) ==
  \E n \in 1..Len(calls) : calls[n] = [op |-> op, item |-> k, ok |-> ok]

LastCall == calls[Len(calls)]

\* the send attempts made for item k
Sends(k) == {n \in 1..Len(outbox) : outbox[n].item = k}

\* a call of completion, rendering or sending made for an item from k on
WorkedFrom(k) ==
  \/ \E n \in 1..Len(calls) :
        calls[n].item >= k /\ calls[n].op \in {"create", "construct", "send"}
  \/ \E n \in 1..Len(outbox) : outbox[n].item >= k

Ended == pc \in {"returned", "raised"}

(* ------------------------------ C1 ----------------------------------- *)
\* C1: when the extraction of item k fails the run stops there: no
\* completion call and no send attempt for item k or a later one, no item
\* after k is extracted, and process_emails returns without raising.
C1_ExtractionFailureStopsRun ==
  \A k \in 1..Len(items) :
    Did("extract", k, FALSE) =>
      /\ pc = "returned"
      /\ i = k
      /\ LastCall = [op |-> "extract", item |-> k, ok |-> FALSE]
      /\ ~WorkedFrom(k)

\* two items, the first fails extraction: nothing was processed
C1_Witness ==
  /\ Len(items) = 2
  /\ Did("extract", 1, FALSE)
  /\ Extractable(items[2])
  /\ pc = "returned"
  /\ outbox = <<>>

(* ------------------------------ C2 ----------------------------------- *)
\* C2: a send failure never ends the run, and every item whose extraction
\* and completion call succeeded gets exactly one send attempt.
C2_EveryCompletedItemIsSent ==
  /\ (calls # <<>> /\ LastCall.op = "send") => pc # "raised"
  /\ \A k \in 1..Len(items) :
       (Did("extract", k, TRUE) /\ Did("create", k, TRUE) /\ (i > k \/ Ended)) =>
         Cardinality(Sends(k)) = 1

(* ------------------------------ C3 ----------------------------------- *)
\* C3: an exception of the completion call for item k leaves
\* process_emails: no send attempt for item k, and no later item is
\* extracted, completed or sent.
C3_CompletionFailurePropagates ==
  \A k \in 1..Len(items) :
    Did("create", k, FALSE) =>
      /\ pc = "raised"
      /\ i = k
      /\ LastCall = [op |-> "create", item |-> k, ok |-> FALSE]
      /\ Sends(k) = {}
      /\ ~WorkedFrom(k + 1)

\* the completion call of the first of two items raised
C3_Witness ==
  /\ Len(items) = 2
  /\ Did("create", 1, FALSE)
  /\ Extractable(items[2])
  /\ pc = "raised"

(* ------------------------------ C4 ----------------------------------- *)
GotNotJson == HasContent(response) /\ ~ContentOf(response).json

\* C4: when the content of the model's message is not JSON the reply is
\* the empty str, a message with the empty str as HTML body is handed to
\* sg.send for that same item, and the loop goes on to the next item.
C4_NotJsonStillSent ==
  [][ /\ (pc = "reply" /\ GotNotJson) =>
           (pc' = "send" /\ reply' = <<>> /\ message'.html_content = <<>>)
      /\ (pc = "send" /\ GotNotJson) =>
           /\ pc' = "loop"
           /\ Len(outbox') = Len(outbox) + 1
           /\ outbox'[Len(outbox')].item = i
           /\ outbox'[Len(outbox')].message.html_content = <<>>
      /\ (pc = "loop" /\ i < Len(items)) => (pc' = "extract" /\ i' = i + 1)
    ]_vars

\* item 1 got a reply that is not JSON, its empty message was sent, and
\* item 2 is being worked on
C4_Witness ==
  /\ Len(items) = 2
  /\ i = 2 /\ pc = "create"
  /\ Len(outbox) = 1
  /\ outbox[1].item = 1
  /\ outbox[1].message.html_content = <<>>

(* ------------------------------ C8 ----------------------------------- *)
\* the str holds the strs of the list and nothing else
Verbatim(str, list) ==
  /\ Len(str) = Len(list)
  /\ \A k \in 1..Len(list) : str[k] = list[k][1]

\* the str holds the strs of the list with one space between neighbours
SpaceJoined(str, list) ==
  /\ Len(str) = (IF list = <<>> THEN 0 ELSE 2 * Len(list) - 1)
  /\ \A k \in 1..Len(list) : str[2 * k - 1] = list[k][1]
  /\ \A k \in 1..(Len(list) - 1) : str[2 * k] = " "

FromItemAndConfig(sent) ==
  LET m == sent.message
      item == items[sent.item]
  IN /\ Extractable(item)
     /\ m.from_email = <<"bot@example.com">>
     /\ m.to_emails = item.email.address
     /\ m.subject = <<"Re: ">> \o item.email.subject
     /\ Len(m.header) = 2
     /\ m.header[1].name = "in_reply_to"
     /\ m.header[1].value = item.payload["inReplyTo"]
     /\ m.header[2].name = "References"

\* C8 as stated: every message handed to the email API for item N has the
\* configured sender, item N's address, "Re: " + item N's subject, and the
\* headers in_reply_to and References copied verbatim from item N's payload.
C8_HeadersVerbatim ==
  \A n \in 1..Len(outbox) :
    /\ FromItemAndConfig(outbox[n])
    /\ Verbatim(outbox[n].message.header[2].value,
                items[outbox[n].item].payload["references"])

\* C8 amended: as C8, but the References header is item N's list of
\* references joined by single spaces (the list itself only when it holds
\* at most one reference).
C8_HeadersFromItem ==
  \A n \in 1..Len(outbox) :
    /\ FromItemAndConfig(outbox[n])
    /\ SpaceJoined(outbox[n].message.header[2].value,
                   items[outbox[n].item].payload["references"])

\* the second of two different items, a reply in a thread of two or more
\* messages whose subject starts with "Re: ", was handed to the email API
C8_Witness ==
  /\ Len(items) = 2
  /\ Len(outbox) = 2
  /\ outbox[2].item = 2
  /\ items[1] # items[2]
  /\ Len(items[2].payload["references"]) >= 2
  /\ items[2].email.subject[1] = "Re: "
  /\ outbox[2].message.subject[2] = "Re: "

(* ------------------------------ C9 ----------------------------------- *)
StepOf(op) ==
  CASE op = "extract" -> 1
    [] op = "create" -> 2
    [] op = "construct" -> 3
    [] op = "send" -> 4
    [] OTHER -> 0

\* C9: items are worked on one at a time in queue order; within an item
\* the steps are extraction, completion call, rendering, send attempt, and
\* the extraction of item N+1 is the first step after the send attempt of
\* item N, whether that attempt succeeded or raised.
C9_OneItemAtATime ==
  /\ calls # <<>> => calls[1].op = "initialize"
  /\ Len(calls) >= 2 => (calls[1].ok /\ calls[2].op = "extract" /\ calls[2].item = 1)
  /\ \A n \in 2..(Len(calls) - 1) :
       \/ /\ calls[n + 1].item = calls[n].item
          /\ calls[n].ok
          /\ StepOf(calls[n + 1].op) = StepOf(calls[n].op) + 1
       \/ /\ calls[n + 1].item = calls[n].item + 1
          /\ calls[n].op = "send"
          /\ calls[n + 1].op = "extract"
  /\ \A n \in 1..Len(outbox) : outbox[n].item = n

\* the send of item 1 raised and item 2 went through all four steps
C9_Witness ==
  /\ Did("send", 1, FALSE)
  /\ Did("extract", 2, TRUE)
  /\ Did("send", 2, TRUE)

(* ------------------------------ C10 ---------------------------------- *)
AllSent == \A k \in 1..Len(items) : Sends(k) # {}

BrokeOnExtraction == calls # <<>> /\ LastCall.op = "extract" /\ ~LastCall.ok

\* C10 as stated: a run ends either with a send attempt made for every
\* item or on the extraction-failure path, and in no other way.
C10_TwoWaysToEnd ==
  (Ended /\ Did("initialize", 0, TRUE)) => (AllSent \/ BrokeOnExtraction)

\* C10 amended: a run ends in one of three ways: a send attempt was made
\* for every item; it broke out of the loop on an extraction failure; or
\* an exception that nothing catches left process_emails, raised by
\* initialize, by the completion call or by construct_email_reply.  A
\* failed send never ends it.
C10_WaysToEnd ==
  /\ pc = "returned" => (AllSent \/ BrokeOnExtraction)
  /\ pc = "raised" =>
       /\ calls # <<>>
       /\ ~LastCall.ok
       /\ LastCall.op \in {"initialize", "create", "construct"}
  /\ (~Ended) => ENABLED Next

\* a run of two items ended at the first one by an exception of the
\* completion call, with nothing sent
C10_Witness ==
  /\ Len(items) = 2
  /\ pc = "raised"
  /\ LastCall = [op |-> "create", item |-> 1, ok |-> FALSE]
  /\ ~AllSent

(* -------------------- the renderer called on its own ----------------- *)
InitRender ==
  /\ items = <<>> /\ i = 0
  /\ pc = "construct"
  /\ email = NoEmail /\ inReplyTo = <<>> /\ references = <<>>
  /\ \/ response \in {NoChoices, Response(NotJson)}
                     \cup {Response(Json(v)) : v \in JsonOthers}
     \/ \E present \in SUBSET TopKeys, kind \in InvoicesKinds, m \in 0..MaxInvoices :
          \E l \in [1..m -> InvoiceEntries] :
            /\ (kind # "array" \/ "invoices" \notin present) => m = 0
            /\ "invoices" \notin present => kind = "array"
            /\ response = Response(Json(TopObject(present, InvoicesValue(kind, l))))
  /\ reply = <<>>
  /\ message = NoMessage
  /\ outbox = <<>> /\ calls = <<>>

ConstructReturns ==
  /\ pc = "construct"
  /\ ~construct_email_reply(response).raised
  /\ reply' = construct_email_reply(response).value
  /\ pc' = "returned"
  /\ UNCHANGED <<items, i, email, inReplyTo, references, response, message, outbox, calls>>

ConstructRaises ==
  /\ pc = "construct"
  /\ construct_email_reply(response).raised
  /\ pc' = "raised"
  /\ UNCHANGED <<items, i, email, inReplyTo, references, response, reply, message,
                 outbox, calls>>

NextRender == ConstructReturns \/ ConstructRaises

SpecRender == InitRender /\ [][NextRender]_vars

(* ------------------ reading a rendered reply back -------------------- *)
\* the part that follows the literal piece `marker`
PartAfter(html, marker) ==
  html[(CHOOSE n \in 1..Len(html) : html[n] = marker) + 1]

\* the positions at which the rows of the table body start
RowStarts(html) ==
  LET body == CHOOSE n \in 1..Len(html) : html[n] = "<tbody>"
  IN {n \in (body + 1)..Len(html) : html[n] = "<tr>"}

\* the start of the k-th row, for every row of the table body
Rows(html) ==
  LET starts == RowStarts(html)
  IN [k \in 1..Cardinality(starts) |->
        CHOOSE n \in starts : Cardinality({m \in starts : m < n}) = k - 1]

\* where a row shows each field, counted from the start of the row
CellOffset(key) ==
  CASE key = "invoice_id" -> 2
    [] key = "total_value" -> 4
    [] key = "currency" -> 6
    [] key = "status" -> 8
    [] key = "promised_payment_date" -> 10
    [] key = "summary" -> 12

Cell(html, rows, k, key) == html[rows[k] + CellOffset(key)]

\* the placeholder texts of section 4.4 of the specification
Placeholder(key) ==
  CASE key = "invoice_id" -> "NO ID"
    [] key = "total_value" -> "NO VALUE"
    [] key = "status" -> "NO STATUS"
    [] key = "promised_payment_date" -> "NO PROMISED DATE"
    [] key = "summary" -> "NO SUMMARY"
    [] key = "currency" -> ""

\* the renderer was given content that parses to a JSON object
GivenObject ==
  /\ HasContent(response)
  /\ ContentOf(response).json
  /\ ContentOf(response).v.t = "object"

GivenDict == ContentOf(response).v.f

\* ... whose invoices, when present, are a list of objects
GivenInvoices ==
  IF "invoices" \in DOMAIN GivenDict THEN GivenDict["invoices"].a ELSE <<>>

GivenInvoiceObjects ==
  /\ GivenObject
  /\ "invoices" \in DOMAIN GivenDict => GivenDict["invoices"].t = "array"
  /\ \A k \in 1..Len(GivenInvoices) : GivenInvoices[k].t = "object"

(* ------------------------------ C5 ----------------------------------- *)
\* C5: for every model response construct_email_reply returns a str and
\* never raises to its caller, whatever the shape of the parsed JSON.
C5_NeverRaises == pc # "raised"

(* ------------------------------ C6 ----------------------------------- *)
\* C6 as stated: for content that parses to a JSON object, every absent
\* optional field is shown as a placeholder text, the currency of an
\* invoice included.
C6_PlaceholderForEveryField ==
  (pc = "returned" /\ GivenInvoiceObjects) =>
    /\ "summary" \notin DOMAIN GivenDict =>
          PartAfter(reply, "<body><h2>SUMMARY</h2>") = "No summary was returned"
    /\ "suggested_reply" \notin DOMAIN GivenDict =>
          PartAfter(reply, "<h2>SUGGESTED REPLY</h2>") = "No suggested reply was returned"
    /\ LET rows == Rows(reply)
       IN \A k \in 1..Len(GivenInvoices) : \A key \in InvoiceKeys :
            key \notin DOMAIN GivenInvoices[k].f =>
              /\ Cell(reply, rows, k, key) # ""
              /\ key # "currency" => Cell(reply, rows, k, key) = Placeholder(key)

\* C6 amended: for content that parses to a JSON object whose invoices are
\* a list of objects, an absent summary, suggested_reply, invoice_id,
\* total_value, status, promised_payment_date or invoice summary is shown
\* as its placeholder text, and an absent currency as the empty string.
C6_PlaceholderOrEmptyCurrency ==
  (pc = "returned" /\ GivenInvoiceObjects) =>
    /\ "summary" \notin DOMAIN GivenDict =>
          PartAfter(reply, "<body><h2>SUMMARY</h2>") = "No summary was returned"
    /\ "suggested_reply" \notin DOMAIN GivenDict =>
          PartAfter(reply, "<h2>SUGGESTED REPLY</h2>") = "No suggested reply was returned"
    /\ LET rows == Rows(reply)
       IN \A k \in 1..Len(GivenInvoices) : \A key \in InvoiceKeys :
            key \notin DOMAIN GivenInvoices[k].f =>
              Cell(reply, rows, k, key) = Placeholder(key)

\* a reply was rendered for an object without summary whose invoice lacks
\* its currency
C6_Witness ==
  /\ pc = "returned" /\ GivenInvoiceObjects
  /\ "summary" \notin DOMAIN GivenDict
  /\ Len(GivenInvoices) >= 1
  /\ "currency" \notin DOMAIN GivenInvoices[1].f
  /\ "total_value" \in DOMAIN GivenInvoices[1].f

(* ------------------------------ C7 ----------------------------------- *)
\* C7: for a JSON object whose invoices are a list of n objects the table
\* body holds n rows, and row k shows the fields of the k-th invoice of
\* the list: no sorting, no deduplication by invoice_id.
C7_RowPerInvoiceInOrder ==
  (pc = "returned" /\ GivenInvoiceObjects) =>
    LET rows == Rows(reply)
    IN /\ Len(rows) = Len(GivenInvoices)
       /\ \A k \in 1..Len(GivenInvoices) : \A key \in InvoiceKeys :
            key \in DOMAIN GivenInvoices[k].f =>
              Cell(reply, rows, k, key) = GivenInvoices[k].f[key].s

\* two invoices that share their invoice_id and differ elsewhere were rendered
C7_Witness ==
  /\ pc = "returned" /\ GivenInvoiceObjects
  /\ Len(GivenInvoices) = 2
  /\ GivenInvoices[1] # GivenInvoices[2]
  /\ "invoice_id" \in DOMAIN GivenInvoices[1].f
  /\ "invoice_id" \in DOMAIN GivenInvoices[2].f
  /\ GivenInvoices[1].f["invoice_id"] = GivenInvoices[2].f["invoice_id"]
  /\ Cardinality(RowStarts(reply)) = 2

====
